---- MODULE Spec2Model ----
(***************************************************************************)
(* Model of the quantization and remapping core of libimagequant           *)
(* (src/src/quant.rs, src/src/remap.rs).                                   *)
(*                                                                         *)
(* Floating point values are modelled by small integers: an MSE is an      *)
(* integer 0..MaxErr, a channel is an integer level 0..AlphaMax, the       *)
(* gamma and the dither level are hundredths.  An Option<T> is a record    *)
(* [some, val].  Collaborators whose code is not part of src/ (median cut, *)
(* k-means, the nearest-colour index, the attribute getters, PalF) are     *)
(* modelled from their description and take their unknown results from     *)
(* bounded sets.                                                           *)
(***************************************************************************)
EXTENDS Integers, Sequences, FiniteSets, TLC

\* ------------------------------------------------------------------ bounds
MaxColors == 3      \* largest attr.max_colors tried
MaxFixed == 1       \* largest fixed-colour set tried
MaxHist == 2        \* largest histogram tried
MaxTrials == 1      \* largest attr.feedback_loop_trials() result tried
MaxIter == 2        \* largest attr.kmeans_iterations() count tried
MaxErr == 1         \* largest MSE value tried
AlphaMax == 2       \* channel levels are 0..AlphaMax (AlphaMax is opaque / full)
MaxSortLen == 3     \* longest palette handed to sort_palette on its own
MaxPop == 2         \* largest popularity in such a palette

\* --------------------------------------------------------------- constants
\* pal.rs: alpha at or below MAX_TRANSP_A counts as (partly) transparent,
\* alpha above MIN_OPAQUE_A counts as not fully transparent.
MAX_TRANSP_A == AlphaMax - 1
MIN_OPAQUE_A == 0
\* f64::MAX, the value of palette_error.unwrap_or(f64::MAX)
F64_MAX == MaxErr + 1000
\* 1e20, the value of max_mse.unwrap_or(1e20)
HUGE_MSE == MaxErr + 1000

\* ----------------------------------------------------------------- helpers
Min(a, b) == IF a <= b THEN a ELSE b
Max(a, b) == IF a >= b THEN a ELSE b
Abs(a) == IF a < 0 THEN -a ELSE a

Some(v) == [some |-> TRUE, val |-> v]
NoneF == [some |-> FALSE, val |-> 0]
NonePal == [some |-> FALSE, val |-> <<>>]
\* Option<Box<Remapped>>::None
NoneRemapped == [some |-> FALSE, val |-> [int_palette |-> <<>>, palette_error |-> NoneF]]
unwrap_or(o, d) == IF o.some THEN o.val ELSE d

\* PalLen is u16: subtraction wraps in a release build
SubPalLen(a, b) == (a - b) % 65536

Color(a, v) == [a |-> a, v |-> v]

\* An f32/f64 argument or field that may be NaN: every comparison with NaN is
\* false
F(x) == [nan |-> FALSE, v |-> x]
NaN == [nan |-> TRUE, v |-> 0]
FLe(x, y) == ~x.nan /\ ~y.nan /\ x.v <= y.v
FGe(x, y) == ~x.nan /\ ~y.nan /\ x.v >= y.v
FEq(x, y) == ~x.nan /\ ~y.nan /\ x.v = y.v


\* ----------------------------------------------------------------------
\* Palettes (PalF): a sequence of entries [color, pop, fixed]
\* ----------------------------------------------------------------------

\* PalPop::to_fixed: marks the entry fixed; a zero popularity becomes 1
to_fixed(e) == [e EXCEPT !.fixed = TRUE, !.pop = IF e.pop > 0 THEN e.pop ELSE 1]

\* The i-th colour of the caller's fixed-colour set
FixedColor(i) == Color(AlphaMax, (i - 1) % (AlphaMax + 1))

FixedColorSets == { [i \in 1..k |-> FixedColor(i)] : k \in 0..MaxFixed }

\* The i-th histogram item: the second one is fully transparent, the others
\* are opaque; the weights differ from item to item
HistItem(i) ==
    LET a == IF i = 2 THEN 0 ELSE AlphaMax
    IN  [color |-> Color(a, IF a = 0 THEN 0 ELSE i % (AlphaMax + 1)),
         perceptual_weight |-> i,
         adjusted_weight |-> i + 1]

Histograms == { [i \in 1..n |-> HistItem(i)] : n \in 1..MaxHist }

\* PalF::with_fixed_colors(max_colors, fixed_colors): the fixed colours are
\* appended as fixed entries; the whole is capped at max_colors entries, the
\* fixed ones being kept.
with_fixed_colors(pal, cap, fixed) ==
    LET nf == Min(Len(fixed), cap)
        keep == Min(Len(pal), Max(cap - nf, 0))
    IN  SubSeq(pal, 1, keep) \o
        [i \in 1..nf |-> [color |-> fixed[i], pop |-> 1, fixed |-> TRUE]]

\* mediancut(hist, k, target, ceiling): up to k representatives, never more
\* than there are histogram items, at least one when k > 0.  The model takes
\* the first n items as the n representatives, for any such n: the target
\* (target_mse * target_mse_overshoot) and the ceiling (max_mse_per_color)
\* only steer which of these palettes the median cut returns, so the loop's
\* target_mse_overshoot is not part of the state.
mediancut(h, k) ==
    { [i \in 1..n |-> [color |-> h[i].color, pop |-> h[i].adjusted_weight, fixed |-> FALSE]] :
        n \in (IF k = 0 THEN {0} ELSE 1..Min(k, Len(h))) }

\* One centroid update of a colour: d = 0 leaves it, d = 1 moves it
MoveColor(c, d) ==
    IF d = 0 THEN c ELSE Color(c.a, IF c.v < c.a THEN c.v + 1 ELSE 0)

\* Kmeans::iteration(hist, palette, fast): non-fixed entries move to their
\* centroid, fixed entries stay; returns the total weighted error.
kmeans_iteration(pal) ==
    { [pal |-> [i \in DOMAIN pal |->
                   IF pal[i].fixed THEN pal[i]
                   ELSE [pal[i] EXCEPT !.color = MoveColor(pal[i].color, d)]],
       err |-> e] : d \in {0, 1}, e \in 0..MaxErr }

\* attr.target_mse(hist_len): (max_mse, target_mse, target_mse_is_zero); the
\* target never exceeds a known max_mse, and a target of "perfect quality"
\* is only raised by the (small) posterization term, 0 at this resolution.
target_mse_results ==
    { r \in [max_mse : {NoneF} \cup { Some(x) : x \in 0..MaxErr },
             target_mse : 0..MaxErr, is_zero : BOOLEAN] :
        /\ r.max_mse.some => r.target_mse <= r.max_mse.val
        /\ r.is_zero => r.target_mse = 0 }

\* attr.feedback_loop_trials(hist_len) as i16: none, a few, or enough trials
\* for the search to go on after a rejected one
feedback_loop_trials == (0..MaxTrials) \cup {MaxTrials + 7}

\* attr.kmeans_iterations(hist_len, palette_error_is_known): (iterations,
\* iteration_limit); the limit is below the resolution of the model's errors,
\* so two errors are within it exactly when they are equal
kmeans_iterations == { [iterations |-> n, iteration_limit |-> 1] : n \in 0..MaxIter }

\* ----------------------------------------------------------------------
\* sort_palette (quant.rs 221-252)
\* ----------------------------------------------------------------------

is_transparent(e) == e.color.a <= MAX_TRANSP_A

\* key(x) <= key(y) for the key (is_transparent == last_index_transparent, Reverse(popularity))
sort_key_le(lit, x, y) ==
    LET kx == (is_transparent(x) = lit)
        ky == (is_transparent(y) = lit)
    IN  IF kx # ky THEN ~kx ELSE x.pop >= y.pop

RECURSIVE insert_sorted(_, _, _)
insert_sorted(lit, s, x) ==
    IF s = <<>> THEN <<x>>
    ELSE IF sort_key_le(lit, Head(s), x)
         THEN <<Head(s)>> \o insert_sorted(lit, Tail(s), x)
         ELSE <<x>> \o s

\* slice::sort_by_key is a stable sort
RECURSIVE sort_by_key(_, _)
sort_by_key(lit, s) ==
    IF s = <<>> THEN <<>>
    ELSE insert_sorted(lit, sort_by_key(lit, SubSeq(s, 1, Len(s) - 1)), s[Len(s)])

\* Lines 235-238 without min_by_key: the first transparent entry
alpha_index_first_transparent(pal) ==
    LET T == { i \in DOMAIN pal : pal[i].color.a <= MAX_TRANSP_A }
    IN  IF T = {} THEN 0 ELSE CHOOSE i \in T : \A j \in T : i <= j

\* filter(a <= MAX_TRANSP_A).min_by_key(a): the first entry of least alpha
\* among the transparent ones; 0 stands for None
alpha_index(pal) ==
    LET T == { i \in DOMAIN pal : is_transparent(pal[i]) }
    IN  IF T = {} THEN 0
        ELSE CHOOSE i \in T : \A j \in T :
                 \/ pal[i].color.a < pal[j].color.a
                 \/ (pal[i].color.a = pal[j].color.a /\ i <= j)

swap(pal, i, j) == [pal EXCEPT ![i] = pal[j], ![j] = pal[i]]

sort_palette(last_index_transparent, pal) ==
    LET sorted == sort_by_key(last_index_transparent, pal)
        ai == alpha_index(sorted)
    IN  IF last_index_transparent /\ ai # 0
        THEN swap(sorted, Len(sorted), ai)
        ELSE sorted


\* ----------------------------------------------------------------------
\* State
\* ----------------------------------------------------------------------
VARIABLES
    \* --- QuantizationResult::new and find_best_palette
    pc,                   \* position: "new", "search", "refine", "final", "returned"
    attr_max_colors,      \* attr.max_colors
    fixed_colors,         \* the fixed-colour set
    hist,                 \* hist.items
    target_mse, target_mse_is_zero, max_mse,  \* attr.target_mse()
    total_trials,         \* attr.feedback_loop_trials()
    max_colors, trials_left, best_palette,
    fails_in_a_row, palette_error,            \* locals of find_best_palette
    new_palette, total_error,                 \* the last trial's palette and error
    palette,              \* the palette handed to refine_palette and returned
    iterations, iteration_limit, refine_i,    \* locals of refine_palette
    calls,                \* number of times the progress observer was consulted
    last_answer,          \* the observer's last answer ("none" before the first)
    first_break,          \* [n, at]: the first consultation answered Break (n = 0: none)
    ret,                  \* what the call returned ("none" while running)
    trials_run,           \* search trials that ran Kmeans::iteration
    kmeans_passes,        \* k-means passes run by refine_palette
    \* --- the QuantizationResult object
    self_palette, self_palette_error, self_remapped, self_int_palette,
    self_dither_level, self_gamma,
    self_min_posterization,   \* min_posterization_output
    self_use_dither_map,      \* use_dither_map
    \* --- the last call made on the object
    last_op, last_arg, last_result,
    \* --- sort_palette on its own
    sort_input, sort_lit, sort_output,
    \* --- the image of a remap and what the remap wrote
    image_px,             \* the image's rows of pixels
    image_background,     \* Option: the background image's rows
    image_edges,          \* image.edges.is_some()
    image_dither_map,     \* image.dither_map.is_some()
    output_pixels,        \* rows of written indices, Uninit where nothing was written
    written_by,           \* per pixel: the branch that chose the last index written
    passes                \* the passes that ran, in order, each with its settings

quant_inputs == <<attr_max_colors, fixed_colors, hist>>
attr_values == <<target_mse, target_mse_is_zero, max_mse, total_trials>>
search_locals == <<max_colors, trials_left, best_palette, fails_in_a_row>>
trial_record == <<new_palette, total_error, trials_run>>
refine_locals == <<iterations, iteration_limit, refine_i, kmeans_passes>>
observer == <<calls, last_answer, first_break>>
self_fields == <<self_palette, self_palette_error, self_remapped, self_int_palette,
                 self_dither_level, self_gamma, self_min_posterization, self_use_dither_map>>
call_record == <<last_op, last_arg, last_result>>
sort_vars == <<sort_input, sort_lit, sort_output>>
image_vars == <<image_px, image_background, image_edges, image_dither_map>>
remap_vars == <<image_vars, output_pixels, written_by, passes>>

quant_vars == <<pc, quant_inputs, attr_values, search_locals, palette_error, trial_record,
                palette, refine_locals, observer, ret>>

vars == <<quant_vars, self_fields, call_record, sort_vars, remap_vars>>

\* What QuantizationResult::new and find_best_palette never touch
not_quant == <<call_record, sort_vars, remap_vars>>

\* The gamma argument of QuantizationResult::new, in hundredths
input_gamma == 45

\* attr.min_posterization() and attr.use_dither_map of the quantization runs
attr_min_posterization == 0
attr_use_dither_map == "Enabled"

\* Palette { count: 0, entries: [Default; 256] }
EmptyIntPalette == <<>>

\* No object exists (before new() returns Ok, or after a failed new())
NoObject ==
    /\ self_palette = <<>>
    /\ self_palette_error = NoneF
    /\ self_remapped = NoneRemapped
    /\ self_int_palette = EmptyIntPalette
    /\ self_dither_level = F(0)
    /\ self_gamma = F(0)
    /\ self_min_posterization = 0
    /\ self_use_dither_map = "None"

\* QuantizationResult::new is not running
NoQuant ==
    /\ pc = "idle"
    /\ attr_max_colors = 0 /\ fixed_colors = <<>> /\ hist = <<>>
    /\ target_mse = 0 /\ target_mse_is_zero = FALSE /\ max_mse = NoneF
    /\ total_trials = 0
    /\ max_colors = 0 /\ trials_left = 0 /\ best_palette = NonePal
    /\ fails_in_a_row = 0
    /\ new_palette = <<>> /\ total_error = 0 /\ trials_run = 0
    /\ palette_error = NoneF
    /\ palette = <<>>
    /\ iterations = 0 /\ iteration_limit = 0 /\ refine_i = 0 /\ kmeans_passes = 0
    /\ calls = 0 /\ last_answer = "none" /\ first_break = [n |-> 0, at |-> "none"]
    /\ ret = "none"

\* No call was made on the object
NoCall == last_op = "none" /\ last_arg = F(0) /\ last_result = "none"

\* sort_palette is not running on its own
NoSort == sort_input = <<>> /\ sort_lit = FALSE /\ sort_output = <<>>

\* No image is being remapped
NoRemap ==
    /\ image_px = <<>> /\ image_background = NonePal
    /\ image_edges = FALSE /\ image_dither_map = FALSE
    /\ output_pixels = <<>>
    /\ written_by = <<>>
    /\ passes = <<>>

\* ----------------------------------------------------------------------
\* The progress observer (attr.progress): true == abort
\* ----------------------------------------------------------------------
Answers == {"Continue", "Break"}

Consult(ans, stage) ==
    /\ calls' = calls + 1
    /\ last_answer' = ans
    /\ first_break' = IF ans = "Break" /\ first_break.n = 0
                      THEN [n |-> calls + 1, at |-> stage]
                      ELSE first_break

\* ----------------------------------------------------------------------
\* find_best_palette (quant.rs 265-314) and refine_palette (317-342)
\* ----------------------------------------------------------------------

\* quant.rs 266
few_input_colors(h, fixed, mc) == Len(h) + Len(fixed) <= mc

\* Line 347 with the item's adjusted weight where the code has its
\* perceptual weight
palette_from_histogram_adjusted(h, mc, fixed) ==
    [pal |-> with_fixed_colors(
                 [i \in 1..Len(h) |-> [color |-> h[i].color,
                                       pop |-> h[i].adjusted_weight,
                                       fixed |-> FALSE]], mc, fixed),
     err |-> Some(0)]

\* quant.rs 344-351
palette_from_histogram(h, mc, fixed) ==
    [pal |-> with_fixed_colors(
                 [i \in 1..Len(h) |-> [color |-> h[i].color,
                                       pop |-> h[i].perceptual_weight,
                                       fixed |-> FALSE]], mc, fixed),
     err |-> Some(0)]

\* Line 292 with `<=` where the code has `<` (an equal error would replace
\* the best palette)
accepts_on_equal_error(best, best_err, err, target, new_len, maxc) ==
    \/ ~best.some
    \/ err <= unwrap_or(best_err, F64_MAX)
    \/ (err <= target /\ new_len < maxc)

\* quant.rs 292: is the trial's palette kept
accepts(best, best_err, err, target, new_len, maxc) ==
    \/ ~best.some
    \/ err < unwrap_or(best_err, F64_MAX)
    \/ (err <= target /\ new_len < maxc)

\* Line 297 with max where the code has min (the cap would grow)
raised_max_colors(maxc, new_len) == Max(maxc, new_len + 1)

\* quant.rs 297
lowered_max_colors(maxc, new_len) == Min(maxc, new_len + 1)

\* Lines 302-304 without the flat cost of 5
reject_cost_without_base(fails) == fails

\* quant.rs 302-304: what a rejected trial takes from the budget
reject_cost(fails) == 5 + fails

\* quant.rs 339: pal_err > max_mse.unwrap_or(1e20) * 1.5
refine_advance(pal_err, maxmse) ==
    IF 2 * pal_err > 3 * unwrap_or(maxmse, HUGE_MSE) THEN 2 ELSE 1

\* The locals of find_best_palette's loop before the loop and out of scope
NoSearchLocals ==
    /\ total_trials = 0
    /\ max_colors = 0 /\ trials_left = 0 /\ best_palette = NonePal
    /\ fails_in_a_row = 0
    /\ new_palette = <<>> /\ total_error = 0 /\ trials_run = 0

DropSearchLocals ==
    /\ target_mse' = 0 /\ target_mse_is_zero' = FALSE /\ total_trials' = 0
    /\ max_colors' = 0 /\ trials_left' = 0 /\ best_palette' = NonePal
    /\ fails_in_a_row' = 0
    /\ new_palette' = <<>> /\ total_error' = 0 /\ trials_run' = 0

\* QuantizationResult::new up to the search loop (quant.rs 34-36, 266-278)
New ==
    /\ pc = "new"
    /\ \E ans \in Answers :
        /\ Consult(ans, "entry")
        /\ IF ans = "Break"
           THEN /\ ret' = "LIQ_ABORTED"
                /\ pc' = "returned"
                /\ UNCHANGED <<attr_values, search_locals, palette_error, palette, refine_locals>>
           ELSE \E t \in target_mse_results, trials \in feedback_loop_trials :
                /\ target_mse' = t.target_mse
                /\ target_mse_is_zero' = t.is_zero
                /\ max_mse' = t.max_mse
                /\ ret' = ret
                /\ IF few_input_colors(hist, fixed_colors, attr_max_colors) /\ t.is_zero
                   THEN LET r == palette_from_histogram(hist, attr_max_colors, fixed_colors)
                        IN  /\ palette' = r.pal
                            /\ palette_error' = r.err
                            /\ pc' = "final"
                            /\ UNCHANGED <<total_trials, search_locals, refine_locals>>
                   ELSE /\ total_trials' = trials
                        /\ max_colors' = attr_max_colors
                        /\ trials_left' = trials
                        /\ best_palette' = NonePal
                        /\ fails_in_a_row' = 0
                        /\ palette_error' = NoneF
                        /\ pc' = "search"
                        /\ UNCHANGED <<palette, refine_locals>>
    /\ UNCHANGED <<quant_inputs, trial_record, self_fields, not_quant>>

\* Line 288 with `<` where the code has `<=`
no_trials_left_below_zero(left) == left < 0

\* quant.rs 288: if trials_left <= 0
no_trials_left(left) == left <= 0

\* One iteration of the search loop (quant.rs 279-309)
Trial ==
    /\ pc = "search"
    /\ \E cut \in mediancut(hist, SubPalLen(max_colors, Len(fixed_colors))) :
       LET np == with_fixed_colors(cut, max_colors, fixed_colors) IN
       IF no_trials_left(trials_left)
       THEN \* 288: break Some(new_palette)
            /\ new_palette' = np
            /\ palette' = np
            /\ pc' = "search_exit"
            /\ UNCHANGED <<search_locals, palette_error, total_error, trials_run, observer, ret>>
       ELSE \E km \in kmeans_iteration(np), ans \in Answers :
            LET acc == accepts(best_palette, palette_error, km.err, target_mse,
                               Len(km.pal), max_colors)
                fails1 == IF acc THEN 0 ELSE fails_in_a_row + 1
                left1 == IF acc THEN trials_left - 1 ELSE trials_left - reject_cost(fails1)
                best1 == IF acc THEN Some(km.pal) ELSE best_palette
                err1 == IF acc THEN Some(km.err) ELSE palette_error
            IN  /\ new_palette' = km.pal
                /\ total_error' = km.err
                /\ trials_run' = trials_run + 1
                /\ palette_error' = err1
                /\ max_colors' = IF acc THEN lowered_max_colors(max_colors, Len(km.pal))
                                 ELSE max_colors
                /\ trials_left' = left1
                /\ fails_in_a_row' = fails1
                /\ best_palette' = best1
                /\ Consult(ans, "trial")
                /\ IF ans = "Break" \/ left1 <= 0
                   THEN \* 307: break best_palette, then `?`
                        IF best1.some
                        THEN palette' = best1.val /\ pc' = "search_exit" /\ ret' = ret
                        ELSE /\ ret' = "LIQ_VALUE_OUT_OF_RANGE"
                             /\ pc' = "returned"
                             /\ palette' = palette
                   ELSE /\ pc' = "search"
                        /\ UNCHANGED <<palette, ret>>
    /\ UNCHANGED <<quant_inputs, target_mse, target_mse_is_zero, max_mse, total_trials,
                   refine_locals, self_fields, not_quant>>

\* refine_palette returns: its locals go out of scope
LeaveRefine ==
    /\ pc' = "final"
    /\ iterations' = 0 /\ iteration_limit' = 0 /\ refine_i' = 0 /\ kmeans_passes' = 0

\* The loop is left with a palette: refine_palette is entered (quant.rs 311,
\* 318-322) and the loop's locals go out of scope
LeaveSearch ==
    /\ pc = "search_exit"
    /\ \E k \in kmeans_iterations :
        IF 0 < k.iterations
        THEN /\ pc' = "refine"
             /\ iterations' = k.iterations
             /\ iteration_limit' = k.iteration_limit
             /\ refine_i' = 0
             /\ kmeans_passes' = 0
        ELSE LeaveRefine
    /\ DropSearchLocals
    /\ UNCHANGED <<quant_inputs, max_mse, palette_error,
                   palette, observer, ret, self_fields, not_quant>>

\* One iteration of the while loop of refine_palette (quant.rs 322-340)
RefinePass ==
    /\ pc = "refine"
    /\ \E ans \in Answers :
        /\ Consult(ans, "refine")
        /\ IF ans = "Break"
           THEN /\ LeaveRefine
                /\ UNCHANGED <<palette, palette_error>>
           ELSE \E km \in kmeans_iteration(palette) :
                LET converged == /\ palette_error.some
                                 /\ Abs(palette_error.val - km.err) < iteration_limit
                    i1 == refine_i + refine_advance(km.err, max_mse)
                IN  /\ palette' = km.pal
                    /\ palette_error' = Some(km.err)
                    /\ IF converged \/ ~(i1 < iterations)
                       THEN LeaveRefine
                       ELSE /\ pc' = "refine"
                            /\ refine_i' = i1
                            /\ kmeans_passes' = kmeans_passes + 1
                            /\ UNCHANGED <<iterations, iteration_limit>>
    /\ UNCHANGED <<quant_inputs, attr_values, search_locals, trial_record, ret, self_fields,
                   not_quant>>

\* Lines 43-44 with `>=` where the code has `>`
quality_too_low_on_equal(err, maxmse) == err.some /\ maxmse.some /\ err.val >= maxmse.val

\* quant.rs 43-44
quality_too_low(err, maxmse) == err.some /\ maxmse.some /\ err.val > maxmse.val

\* QuantizationResult::new after find_best_palette returned (quant.rs 37-73)
Finish ==
    /\ pc = "final"
    /\ \E ans \in Answers, freeze_result_colors \in BOOLEAN,
          last_index_transparent \in BOOLEAN :
        LET frozen == IF freeze_result_colors
                      THEN [k \in DOMAIN palette |-> to_fixed(palette[k])]
                      ELSE palette
        IN  /\ Consult(ans, "final")
            /\ pc' = "returned"
            /\ IF ans = "Break"
               THEN ret' = "LIQ_ABORTED" /\ UNCHANGED self_fields
               ELSE IF quality_too_low(palette_error, max_mse)
               THEN ret' = "LIQ_QUALITY_TOO_LOW" /\ UNCHANGED self_fields
               ELSE /\ ret' = "LIQ_OK"
                    /\ self_palette' = sort_palette(last_index_transparent, frozen)
                    /\ self_palette_error' = palette_error
                    /\ self_gamma' = F(input_gamma)
                    /\ self_min_posterization' = attr_min_posterization
                    /\ self_use_dither_map' = attr_use_dither_map
                    /\ self_remapped' = NoneRemapped
                    /\ self_int_palette' = EmptyIntPalette
                    /\ self_dither_level' = F(0)
    /\ UNCHANGED <<quant_inputs, attr_values, search_locals, palette_error, trial_record,
                   palette, refine_locals, not_quant>>

Init ==
    /\ pc = "new"
    /\ hist \in Histograms
    /\ attr_max_colors \in 1..MaxColors
    /\ fixed_colors \in { f \in FixedColorSets : Len(f) <= attr_max_colors }
    /\ target_mse = 0 /\ target_mse_is_zero = FALSE /\ max_mse = NoneF
    /\ NoSearchLocals
    /\ palette_error = NoneF
    /\ palette = <<>>
    /\ iterations = 0 /\ iteration_limit = 0 /\ refine_i = 0 /\ kmeans_passes = 0
    /\ calls = 0 /\ last_answer = "none" /\ first_break = [n |-> 0, at |-> "none"]
    /\ ret = "none"
    /\ NoObject
    /\ NoCall /\ NoSort /\ NoRemap

Next == New \/ Trial \/ LeaveSearch \/ RefinePass \/ Finish

Spec == Init /\ [][Next]_vars


\* ----------------------------------------------------------------------
\* Properties of the palette search (checked under Spec)
\* ----------------------------------------------------------------------

\* C2: the palette produced by find_best_palette (by the short-circuit, with
\* no trial, or after any trials and refinement) has at most attr.max_colors
\* entries and holds every fixed colour as a fixed entry; during the search
\* the running max_colors is never raised, never above attr.max_colors and
\* never below the number of fixed colours, so max_colors - |fixed| does not
\* wrap.
C2_PaletteWithinMaxColors ==
    /\ [](pc \in {"search", "search_exit"} =>
            /\ Len(fixed_colors) <= max_colors
            /\ max_colors <= attr_max_colors
            /\ SubPalLen(max_colors, Len(fixed_colors)) = max_colors - Len(fixed_colors))
    /\ [](pc \in {"search_exit", "refine", "final"} =>
            /\ Len(palette) <= attr_max_colors
            /\ \A i \in DOMAIN fixed_colors : \E j \in DOMAIN palette :
                   palette[j].fixed /\ palette[j].color = fixed_colors[i])
    /\ [][pc = "search" /\ pc' \in {"search", "search_exit"} => max_colors' <= max_colors]_vars

\* A search that lowered max_colors and ended after two or more trials
C2_Witness ==
    /\ pc = "search_exit"
    /\ trials_run >= 2
    /\ max_colors < attr_max_colors
    /\ Len(palette) < attr_max_colors

\* C3: a Break answered at any milestone makes new() return LIQ_ABORTED and
\* leaves no result object, whatever the observer answers afterwards.
C3_BreakAborts ==
    (pc = "returned" /\ first_break.n # 0) => (ret = "LIQ_ABORTED" /\ NoObject)

\* C6: without any Break, new() returns LIQ_QUALITY_TOO_LOW exactly when
\* palette_error and max_mse are both known and palette_error > max_mse, and
\* otherwise returns an object holding the search's palette_error; a Break at
\* the final check gives LIQ_ABORTED whatever the quality.
C6_QualityTooLow ==
    /\ (pc = "returned" /\ first_break.n = 0) =>
          /\ ret = "LIQ_QUALITY_TOO_LOW" <=>
                (palette_error.some /\ max_mse.some /\ palette_error.val > max_mse.val)
          /\ ret # "LIQ_QUALITY_TOO_LOW" =>
                (ret = "LIQ_OK" /\ self_palette_error = palette_error /\ self_palette # <<>>)
    /\ (pc = "returned" /\ last_answer = "Break") => (ret = "LIQ_ABORTED" /\ NoObject)

\* new() refused a palette whose error is above max_mse, the observer never
\* having answered Break
C6_Witness ==
    /\ pc = "returned"
    /\ first_break.n = 0
    /\ ret = "LIQ_QUALITY_TOO_LOW"
    /\ palette_error.val > max_mse.val

\* C9: a trial's palette and error replace the best palette and the best
\* error, both together, exactly when error < best error (no best error yet
\* counting as infinite) or error <= target_mse and the new palette is shorter
\* than max_colors; otherwise both stay; the palette that leaves the loop
\* after a trial is the best palette, paired with its own error.
C9_Acceptance ==
    /\ [](pc \in {"search", "search_exit"} => (best_palette.some <=> palette_error.some))
    /\ [](pc = "search_exit" /\ trials_run > 0 =>
            best_palette.some /\ palette = best_palette.val)
    /\ [][(pc = "search" /\ trials_run' = trials_run + 1) =>
            IF \/ ~palette_error.some
               \/ total_error' < palette_error.val
               \/ (total_error' <= target_mse /\ Len(new_palette') < max_colors)
            THEN best_palette' = Some(new_palette') /\ palette_error' = Some(total_error')
            ELSE best_palette' = best_palette /\ palette_error' = palette_error]_vars

\* The second trial was rejected: the best palette is still the first one
C9_Witness ==
    /\ pc = "search"
    /\ trials_run = 2
    /\ fails_in_a_row = 1
    /\ best_palette.some
    /\ best_palette.val # new_palette

\* C10: every trial runs on a positive budget and lowers it, by 1 when the
\* palette is accepted and by 5 + fails_in_a_row (>= 1 after the increment)
\* when it is rejected; the loop is left once the budget is <= 0; no more than
\* total_trials trials run; each refinement pass advances i by 1 or 2 and
\* the passes number at most `iterations`.
C10_BoundedSearch ==
    /\ [][(pc = "search" /\ trials_run' = trials_run + 1) =>
            /\ trials_left > 0
            /\ trials_left' < trials_left
            /\ \/ /\ palette_error' = Some(total_error')
                  /\ fails_in_a_row' = 0
                  /\ trials_left' = trials_left - 1
               \/ /\ palette_error' = palette_error
                  /\ fails_in_a_row' = fails_in_a_row + 1
                  /\ fails_in_a_row' >= 1
                  /\ trials_left' = trials_left - (5 + fails_in_a_row')
            /\ trials_left' <= 0 => pc' # "search"]_vars
    /\ [](pc \in {"search", "search_exit"} =>
            /\ trials_run <= Max(total_trials, 0)
            /\ trials_left <= total_trials - trials_run)
    /\ [](pc = "refine" => kmeans_passes <= refine_i /\ refine_i < iterations)
    /\ [][(pc = "refine" /\ pc' = "refine") =>
            /\ refine_i' - refine_i \in {1, 2}
            /\ kmeans_passes' = kmeans_passes + 1]_vars

\* Two trials rejected in a row took the budget below zero and ended the search
C10_Witness ==
    /\ pc = "search_exit"
    /\ trials_run = 3
    /\ fails_in_a_row = 2
    /\ trials_left < 0

\* C11: when |histogram| + |fixed| <= max_colors and the target MSE is zero
\* (the flag attr.target_mse returns), find_best_palette returns straight
\* from its first lines: QuantizationResult::new goes from its entry to the
\* code after find_best_palette in one step, with no trial, no refinement
\* pass and no consultation of the observer besides new's own one on entry;
\* the palette holds one entry per histogram item, in histogram order, with
\* the item's perceptual weight as popularity, followed by the fixed colours
\* as fixed entries, and palette_error is 0.  In every other case the search
\* loop is entered.
C11_ShortCircuit ==
    [][(pc = "new" /\ last_answer' = "Continue") =>
         IF Len(hist) + Len(fixed_colors) <= attr_max_colors /\ target_mse_is_zero'
         THEN /\ pc' = "final"
              /\ calls' = 1
              /\ trials_run' = 0 /\ kmeans_passes' = 0
              /\ best_palette' = NonePal
              /\ Len(palette') = Len(hist) + Len(fixed_colors)
              /\ \A i \in 1..Len(hist) :
                    palette'[i] = [color |-> hist[i].color,
                                   pop |-> hist[i].perceptual_weight,
                                   fixed |-> FALSE]
              /\ \A j \in 1..Len(fixed_colors) :
                    /\ palette'[Len(hist) + j].color = fixed_colors[j]
                    /\ palette'[Len(hist) + j].fixed
              /\ palette_error' = Some(0)
         ELSE pc' = "search"]_vars

\* The short-circuit was taken with two histogram items and a fixed colour
C11_Witness ==
    /\ pc = "final"
    /\ target_mse_is_zero
    /\ calls = 1
    /\ Len(hist) = 2 /\ Len(fixed_colors) = 1
    /\ Len(palette) = 3
    /\ palette_error = Some(0)

\* C16: find_best_palette always comes back with a palette, so
\* QuantizationResult::new never returns LIQ_VALUE_OUT_OF_RANGE.  With a trial
\* budget <= 0 the loop is left at its top with the one median-cut palette
\* (fixed colours merged), no k-means trial, no consultation of the observer
\* and the error unknown; with a positive budget the first trial is always
\* accepted, so whenever the loop is left, on a spent budget or on the
\* observer's Break, best_palette is Some and is the palette handed on.
C16_AlwaysAPalette ==
    /\ [](ret # "LIQ_VALUE_OUT_OF_RANGE")
    /\ []((pc = "search" /\ trials_run >= 1) => best_palette.some)
    /\ [][(pc = "search" /\ trials_run = 0 /\ trials_run' = 1) =>
            /\ best_palette' = Some(new_palette')
            /\ palette_error' = Some(total_error')]_vars
    /\ [][(pc = "search" /\ pc' # "search") =>
            /\ pc' = "search_exit"
            /\ IF total_trials <= 0
               THEN /\ trials_run' = 0
                    /\ calls' = calls
                    /\ palette_error' = NoneF
                    /\ palette' \in { with_fixed_colors(cut, attr_max_colors, fixed_colors) :
                                       cut \in mediancut(hist, attr_max_colors - Len(fixed_colors)) }
               ELSE /\ trials_run' >= 1
                    /\ best_palette'.some
                    /\ palette' = best_palette'.val
                    /\ palette_error'.some]_vars

\* The observer's Break ended the search after the first trial, with budget
\* left: the palette of that trial is the best one
C16_Witness ==
    /\ pc = "search_exit"
    /\ last_answer = "Break"
    /\ trials_run = 1
    /\ trials_left > 0
    /\ best_palette = Some(new_palette)
    /\ palette = new_palette


\* ----------------------------------------------------------------------
\* sort_palette on arbitrary palettes (SpecSort)
\* ----------------------------------------------------------------------

SortEntries ==
    { [color |-> Color(a, 0), pop |-> p, fixed |-> FALSE] : a \in 0..AlphaMax, p \in 1..MaxPop }

SortPalettes == UNION { [1..n -> SortEntries] : n \in 1..MaxSortLen }

SortInit ==
    /\ NoQuant /\ NoObject /\ NoCall /\ NoRemap
    /\ sort_input \in SortPalettes
    /\ sort_lit \in BOOLEAN
    /\ sort_output = <<>>

\* sort_palette(attr, &mut palette) with attr.last_index_transparent = sort_lit
SortPalette ==
    /\ sort_output = <<>>
    /\ sort_output' = sort_palette(sort_lit, sort_input)
    /\ UNCHANGED <<quant_vars, self_fields, call_record, sort_input, sort_lit, remap_vars>>

SortNext == SortPalette

SpecSort == SortInit /\ [][SortNext]_vars

\* C8: after sort_palette with the transparent-last policy on a palette with
\* an entry of alpha <= MAX_TRANSP_A, the last entry has alpha <= MAX_TRANSP_A
\* and no entry has a smaller alpha; under either policy the sorted palette
\* holds the input's (colour, popularity) pairs, each as often as the input.
C8_TransparentLast ==
    sort_output # <<>> =>
        /\ Len(sort_output) = Len(sort_input)
        /\ \A e \in SortEntries :
               Cardinality({ i \in DOMAIN sort_output : sort_output[i] = e }) =
               Cardinality({ i \in DOMAIN sort_input : sort_input[i] = e })
        /\ (sort_lit /\ \E i \in DOMAIN sort_input : sort_input[i].color.a <= MAX_TRANSP_A) =>
               LET last == sort_output[Len(sort_output)]
               IN  /\ last.color.a <= MAX_TRANSP_A
                   /\ \A j \in DOMAIN sort_output : sort_output[j].color.a >= last.color.a

\* The swap moved a fully transparent entry behind a partly transparent one
\* that the sort had put after it
C8_Witness ==
    /\ sort_lit
    /\ Len(sort_output) = 3
    /\ sort_output[3].color.a = 0
    /\ sort_output[2].color.a = MAX_TRANSP_A
    /\ sort_output[2].color.a > 0
    /\ sort_output[2].pop < sort_output[3].pop
    /\ sort_output[1].color.a = AlphaMax


\* ----------------------------------------------------------------------
\* The integer palette (remap.rs 307-339)
\* ----------------------------------------------------------------------

\* The gamma the f_pixel values are kept in (pal.rs), in hundredths
INTERNAL_GAMMA == 57

\* f_pixel::to_rgb(gamma), one colour channel: a level as an 8-bit value; the
\* end points are fixed, the levels between move with the gamma; a NaN gamma
\* gives NaN, which the cast to u8 turns into 0
to_rgb(level, gamma) ==
    LET lin == (level * 255) \div AlphaMax
    IN  IF gamma.nan \/ gamma.v <= 0 THEN 0
        ELSE IF level = 0 \/ level = AlphaMax THEN lin
        ELSE Min(254, Max(1, (lin * INTERNAL_GAMMA) \div gamma.v))

\* f_pixel::from_rgba(&gamma_lut(gamma), px), one colour channel
from_rgba(c, gamma) ==
    LET lin == IF gamma.nan THEN 0
               ELSE IF c = 0 \/ c = 255 THEN c
               ELSE Min(254, Max(1, (c * gamma.v) \div INTERNAL_GAMMA))
    IN  (lin * AlphaMax + 127) \div 255

\* Alpha is linear in both directions
alpha_to_u8(level) == (level * 255) \div AlphaMax
alpha_from_u8(c) == (c * AlphaMax + 127) \div 255

\* remap.rs 333-339: (color & !((1 << bits) - 1)) | (color >> (8 - bits)); the
\* two operands of | have no bit in common
posterize_channel(color, bits) ==
    IF bits = 0 THEN color
    ELSE (color - (color % (2 ^ bits))) + (color \div (2 ^ (8 - bits)))

\* Line 309 counting one entry too few
int_palette_count_short(pal) == Len(pal) - 1

\* remap.rs 309: count: palette.len()
int_palette_count(pal) == Len(pal)

\* remap.rs 307-325: [int: the integer palette, pal: the rounded palette]
make_int_palette(pal, gamma, posterize) ==
    LET px(e) == [a |-> posterize_channel(alpha_to_u8(e.color.a), posterize),
                  v |-> posterize_channel(to_rgb(e.color.v, gamma), posterize)]
    IN  [int |-> [i \in 1..int_palette_count(pal) |->
                    IF px(pal[i]).a = 0 /\ ~pal[i].fixed
                    THEN [a |-> 0, v |-> 71]
                    ELSE px(pal[i])],
         pal |-> [i \in DOMAIN pal |->
                    [pal[i] EXCEPT !.color = Color(alpha_from_u8(px(pal[i]).a),
                                                   from_rgba(px(pal[i]).v, gamma))]]]

\* ----------------------------------------------------------------------
\* Calls on a QuantizationResult (SpecResult)
\* ----------------------------------------------------------------------

\* quant.rs 85-93: [ret, remapped, dither_level]
set_dithering_level(value, remapped, dither_level) ==
    IF ~(FLe(F(0), value) /\ FLe(value, F(100)))
    THEN [ret |-> "LIQ_VALUE_OUT_OF_RANGE", remapped |-> remapped, dither_level |-> dither_level]
    ELSE [ret |-> "LIQ_OK", remapped |-> NoneRemapped, dither_level |-> value]

\* quant.rs 96-105: [ret, remapped, gamma]
set_output_gamma(value, remapped, gamma) ==
    IF FLe(value, F(0)) \/ FGe(value, F(100))
    THEN [ret |-> "LIQ_VALUE_OUT_OF_RANGE", remapped |-> remapped, gamma |-> gamma]
    ELSE [ret |-> "LIQ_OK", remapped |-> NoneRemapped, gamma |-> value]

\* mse_to_standard_mse (remap.rs 328-330): mse * 65536 / 6 / LIQ_WEIGHT_MSE,
\* LIQ_WEIGHT_MSE being 1/4
mse_to_standard_mse(mse) == ((mse * 65536) \div 6) * 4

\* quant.rs 128-132
remapping_error_of(remapped) ==
    IF remapped.some /\ remapped.val.palette_error.some
    THEN Some(mse_to_standard_mse(remapped.val.palette_error.val))
    ELSE NoneF

\* quant.rs 159-172: [ret: the palette returned, int_palette, palette: the
\* fields after the call]
int_palette(remapped, cached, pal, gamma, posterize) ==
    IF remapped.some
    THEN [ret |-> remapped.val.int_palette, int_palette |-> cached, palette |-> pal]
    ELSE IF Len(cached) = 0
         THEN LET m == make_int_palette(pal, gamma, posterize)
              IN  [ret |-> m.int, int_palette |-> m.int, palette |-> m.pal]
         ELSE [ret |-> cached, int_palette |-> cached, palette |-> pal]


\* ----------------------------------------------------------------------
\* Remapping (remap.rs)
\*
\* The passes compute on pixels in sixteenths of a level: a colour of the
\* image or of the palette is [a, v] in levels 0..AlphaMax and Sub(c) is the
\* same colour in sixteenths; propagated errors are pixels in sixteenths.
\* Written indices count from 0, as in the code: index i is palette[i + 1].
\* ----------------------------------------------------------------------
Width == 2          \* image.width()
Height == 2         \* image.height()

\* `let v = ...;` followed by the rest of the block: Then applied to the value
\* of v, computed once
With(v, Then(_)) == CHOOSE r \in { Then(x) : x \in {v} } : TRUE

\* An output byte nothing was written to (MaybeUninit)
Uninit == 255 + 1

\* 1.0 in sixteenths of a level
Full == 16 * AlphaMax

Sub(c) == Color(16 * c.a, 16 * c.v)

\* f_pixel::default()
ZeroPx == Color(0, 0)

\* x * n / d, rounded towards zero
ScaleBy(x, n, d) == IF x >= 0 THEN (x * n) \div d ELSE -(((-x) * n) \div d)

\* f_pixel::diff: squared colour difference plus weighted squared alpha
\* difference (times 4, the weight of alpha being 1/4)
diff(x, y) == 4 * (x.v - y.v) * (x.v - y.v) + (x.a - y.a) * (x.a - y.a)

RECURSIVE SumSeq(_)
SumSeq(q) == IF q = <<>> THEN 0 ELSE Head(q) + SumSeq(Tail(q))

\* The pixel positions <<row, column>> in row-major order
Positions == [k \in 1..(Width * Height) |-> <<((k - 1) \div Width) + 1, ((k - 1) % Width) + 1>>]

\* Nearest::search(px, likely_colormap_index): the exact nearest entry and its
\* diff.  The likely index wins a tie when it is among the nearest (an invalid
\* one is ignored); otherwise the tie goes to the lowest or to the highest
\* index, as tb says.
search(pal, px, likely_colormap_index, tb) ==
    LET I == 0..(Len(pal) - 1)
        d(i) == diff(px, Sub(pal[i + 1].color))
        N == { i \in I : \A j \in I : d(i) <= d(j) }
        idx == IF likely_colormap_index \in N THEN likely_colormap_index
               ELSE IF tb = "low" THEN CHOOSE i \in N : \A j \in N : i <= j
               ELSE CHOOSE i \in N : \A j \in N : i >= j
    IN  [idx |-> idx, diff |-> d(idx)]

\* Kmeans::update_color over the pass and Kmeans::finalize(palette): an entry
\* that is not fixed moves to the average of the pixels recorded for it
kmeans_finalize(pal, px, rows, transparent_index) ==
    [i \in DOMAIN pal |->
        LET mine(k) == LET w == rows[Positions[k][1]][Positions[k][2]]
                       IN  w.idx = i - 1 /\ w.idx # transparent_index
            n == SumSeq([k \in DOMAIN Positions |-> IF mine(k) THEN 1 ELSE 0])
            sa == SumSeq([k \in DOMAIN Positions |->
                            IF mine(k) THEN px[Positions[k][1]][Positions[k][2]].a ELSE 0])
            sv == SumSeq([k \in DOMAIN Positions |->
                            IF mine(k) THEN px[Positions[k][1]][Positions[k][2]].v ELSE 0])
        IN  IF n = 0 \/ pal[i].fixed THEN pal[i]
            ELSE [pal[i] EXCEPT !.color = Color(sa \div n, sv \div n)]]

\* remap.rs 38-40 and 160: the entry nearest to the all-zero pixel
nearest_to_zero(pal, tb) == search(pal, ZeroPx, 0, tb).idx

\* Lines 42-44 and 161-163 without the alpha test (background stays on)
background_kept(has_background, pal, transparent_index) == has_background

\* remap.rs 42-44 and 161-163: is `background` still Some after the test
background_enabled(has_background, pal, transparent_index) ==
    has_background /\ ~(pal[transparent_index + 1].color.a > MIN_OPAQUE_A)

\* remap.rs 66-82: the pixels of one row from column col (counted from 1) on;
\* per pixel [idx: the index written, diff, by: the branch that chose it]
RECURSIVE nearest_row(_, _, _, _, _, _, _)
nearest_row(pal, row_pixels, bg_pixels, transparent_index, tb, col, last_match) ==
    IF col > Len(row_pixels) THEN <<>>
    ELSE LET written(s) ==
                 IF bg_pixels # <<>>
                    /\ diff(Sub(bg_pixels[col]), Sub(pal[s.idx + 1].color)) <= s.diff
                 THEN [idx |-> transparent_index,
                       diff |-> diff(Sub(bg_pixels[col]), Sub(pal[s.idx + 1].color)),
                       by |-> "background"]
                 ELSE [idx |-> s.idx, diff |-> s.diff, by |-> "search"]
         IN  With(written(search(pal, Sub(row_pixels[col]), last_match, tb)), LAMBDA w :
                <<w>> \o nearest_row(pal, row_pixels, bg_pixels, transparent_index, tb,
                                     col + 1, w.idx))

\* remap_to_palette (remap.rs 30-93) on an image whose rows can be read:
\* [error, output, by, palette: the palette after kmeans.finalize, pass: the
\* pass's settings and the palette it searched]
remap_to_palette(px, background, pal, tb) ==
    LET transparent_index == IF background.some THEN nearest_to_zero(pal, tb) ELSE -1
        pass(ti, bg_on, rows) ==
            LET remapping_error ==
                    SumSeq([k \in DOMAIN Positions |->
                              rows[Positions[k][1]][Positions[k][2]].diff])
            IN  [error |-> remapping_error \div (Width * Height),
                 output |-> [r \in DOMAIN px |-> [c \in DOMAIN px[r] |-> rows[r][c].idx]],
                 by |-> [r \in DOMAIN px |-> [c \in DOMAIN px[r] |-> rows[r][c].by]],
                 palette |-> kmeans_finalize(pal, px, rows, ti),
                 pass |-> [name |-> "nearest", background |-> bg_on,
                           transparent_index |-> ti, hinted |-> FALSE,
                           palette |-> pal]]
    IN  With(transparent_index, LAMBDA ti :
          With(background_enabled(background.some, pal, ti), LAMBDA bg_on :
            With([r \in DOMAIN px |->
                     nearest_row(pal, px[r], IF bg_on THEN background.val[r] ELSE <<>>,
                                 ti, tb, 1, 0)],
                 LAMBDA rows : pass(ti, bg_on, rows))))


\* quality_to_mse (quant.rs 362-369) in the unit of diff(): 1e20 for quality
\* 0, 0 from quality 100 on, decreasing in between (a linear stand-in for the
\* curve, which this resolution cannot tell apart)
quality_to_mse(quality) ==
    IF quality = 0 THEN HUGE_MSE
    ELSE IF quality >= 100 THEN 0
    ELSE ((100 - quality) * Full * Full) \div 16000

\* remap.rs 95-132; dither_level is the fraction [num, den]; ratio is kept in
\* sixteenths; the colour channel v stands for r, g and b
get_dithered_pixel(dither_level, max_dither_error, thiserr, px) ==
    LET s == Color(ScaleBy(thiserr.a, dither_level.num, dither_level.den),
                   ScaleBy(thiserr.v, dither_level.num, dither_level.den))
        dither_error == s.v * s.v + s.a * s.a
        MAX_OVERFLOW == Full + (Full \div 10)
        MAX_UNDERFLOW == -(Full \div 10)
        ratio == IF px.v + s.v > MAX_OVERFLOW
                 THEN Min(16, ((MAX_OVERFLOW - px.v) * 16) \div s.v)
                 ELSE IF px.v + s.v < MAX_UNDERFLOW
                 THEN Min(16, ((MAX_UNDERFLOW - px.v) * 16) \div s.v)
                 ELSE 16
        ratio2 == IF dither_error > max_dither_error THEN (ratio * 8) \div 10 ELSE ratio
    IN  IF dither_error * 65536 < 2 * Full * Full
        THEN px
        ELSE Color(Max(0, Min(Full, px.a + s.a)), px.v + ScaleBy(s.v, ratio2, 16))

\* map[r, c] of a dither map (or edges map) of the given kind
map_value(kind, r, c) ==
    IF kind = "flat" THEN 255 ELSE IF (r + c) % 2 = 0 THEN 255 ELSE 0

\* remap.rs 165-168: (1 - (1 - dither_level)^2) * 15/16, and 1/255 of it when
\* there is a dither map; dither_level is in hundredths
base_dithering_level(dither_level, has_dither_map) ==
    [num |-> (10000 - (100 - dither_level) * (100 - dither_level)) * 15,
     den |-> 10000 * 16 * (IF has_dither_map THEN 255 ELSE 1)]

\* The loop of remap.rs 183-256 from column col (counted from 0) to the end
\* of the row in the scan direction.  c holds what is fixed for the row, st
\* what the loop updates: thiserr, nexterr (index k of the code is k + 1
\* here), last_match, undithered_bg_used, and the row's output and branches.
RECURSIVE floyd_cols(_, _, _)
floyd_cols(c, st, col) ==
    LET dither_level == IF c.dither_map # <<>>
                        THEN [c.base EXCEPT !.num = @ * c.dither_map[col + 1]]
                        ELSE c.base
        input_px == Sub(c.row_pixels[col + 1])
        guessed_match == IF c.output_image_is_remapped
                         THEN c.output_row[col + 1]
                         ELSE st.last_match
        \* lines 195-227: the entry written for the dithered pixel spx
        chosen(spx, found) ==
            LET searched == [idx |-> found.idx, px |-> Sub(c.palette[found.idx + 1].color),
                             by |-> "search", used |-> st.undithered_bg_used]
            IN  IF c.bg_pixels = <<>> THEN searched
                ELSE LET bg_pixel == Sub(c.bg_pixels[col + 1])
                         guessed_px == Sub(c.palette[guessed_match + 1].color)
                     IN  IF diff(spx, bg_pixel) <= found.diff
                         THEN [idx |-> c.transparent_index, px |-> bg_pixel,
                               by |-> "background", used |-> st.undithered_bg_used]
                         ELSE IF st.undithered_bg_used > 1
                         THEN [searched EXCEPT !.used = 0]
                         ELSE IF /\ diff(input_px, searched.px) > diff(input_px, bg_pixel)
                                 /\ diff(input_px, guessed_px) < diff(input_px, bg_pixel)
                         THEN [idx |-> guessed_match, px |-> guessed_px,
                               by |-> "guess", used |-> st.undithered_bg_used + 1]
                         ELSE searched
        \* lines 229-244: the error of the written entry, spread over the neighbours
        spread(spx, ch) ==
            LET err0 == Color(spx.a - ch.px.a, spx.v - ch.px.v)
                err == IF err0.v * err0.v + err0.a * err0.a > c.max_dither_error
                       THEN Color(ScaleBy(err0.a, 3, 4), ScaleBy(err0.v, 3, 4))
                       ELSE err0
                part(n) == Color(ScaleBy(err.a, n, 16), ScaleBy(err.v, n, 16))
                plus(x, y) == Color(x.a + y.a, x.v + y.v)
            IN  [thiserr |-> IF c.scan_forward
                             THEN [st.thiserr EXCEPT ![col + 3] = plus(@, part(7))]
                             ELSE [st.thiserr EXCEPT ![col + 1] = plus(@, part(7))],
                 nexterr |-> IF c.scan_forward
                             THEN [st.nexterr EXCEPT ![col + 3] = part(1),
                                                     ![col + 2] = plus(@, part(5)),
                                                     ![col + 1] = plus(@, part(3))]
                             ELSE [st.nexterr EXCEPT ![col + 3] = plus(@, part(3)),
                                                     ![col + 2] = plus(@, part(5)),
                                                     ![col + 1] = part(1)],
                 last_match |-> ch.idx,
                 undithered_bg_used |-> ch.used,
                 out |-> [st.out EXCEPT ![col + 1] = ch.idx],
                 by |-> [st.by EXCEPT ![col + 1] = ch.by]]
        continue(st1) ==
            IF c.scan_forward
            THEN IF col + 1 >= Len(c.row_pixels) THEN st1 ELSE floyd_cols(c, st1, col + 1)
            ELSE IF col = 0 THEN st1 ELSE floyd_cols(c, st1, col - 1)
    IN  With(get_dithered_pixel(dither_level, c.max_dither_error, st.thiserr[col + 2], input_px),
             LAMBDA spx :
               With(chosen(spx, search(c.palette, spx, guessed_match, c.tb)),
                    LAMBDA ch : With(spread(spx, ch), LAMBDA st1 : continue(st1))))

\* The row loop of remap.rs 172-259 from row `row` (counted from 0) on; f
\* holds what is fixed for the pass, acc the output and branches so far
RECURSIVE floyd_rows(_, _, _, _, _)
floyd_rows(f, row, thiserr, scan_forward, acc) ==
    IF row >= Len(f.px) THEN [acc EXCEPT !.ret = "LIQ_OK"]
    ELSE IF f.break_row = row + 1 THEN [acc EXCEPT !.ret = "LIQ_ABORTED"]
    ELSE LET width == Len(f.px[row + 1])
             fixed == [base |-> f.base,
                       dither_map |-> IF f.map = "none" THEN <<>>
                                      ELSE [k \in 1..width |-> map_value(f.map, row + 1, k)],
                       row_pixels |-> f.px[row + 1],
                       bg_pixels |-> IF f.background THEN f.bg[row + 1] ELSE <<>>,
                       output_row |-> acc.output[row + 1],
                       output_image_is_remapped |-> f.output_image_is_remapped,
                       max_dither_error |-> f.max_dither_error,
                       palette |-> f.palette,
                       transparent_index |-> f.transparent_index,
                       tb |-> f.tb,
                       scan_forward |-> scan_forward]
             start == [thiserr |-> thiserr,
                       nexterr |-> [k \in 1..(width + 2) |-> ZeroPx],
                       last_match |-> 0,
                       undithered_bg_used |-> 0,
                       out |-> acc.output[row + 1],
                       by |-> acc.by[row + 1]]
             row_done(c, st0) == floyd_cols(c, st0, IF scan_forward THEN 0 ELSE width - 1)
         IN  With(With(fixed, LAMBDA c : With(start, LAMBDA st0 : row_done(c, st0))),
                  LAMBDA st :
                    With(<<st.nexterr,
                           [acc EXCEPT !.output[row + 1] = st.out, !.by[row + 1] = st.by]>>,
                         LAMBDA n : floyd_rows(f, row + 1, n[1], ~scan_forward, n[2])))

\* remap_to_palette_floyd (remap.rs 138-261) on an image whose rows can be
\* read: [ret, output, by, pass].  env.map is the kind of the image's dither
\* map (or edges map), env.break_row the row at which remap_progress answers
\* Break (0: never).
remap_to_palette_floyd(image, output, by, quant, max_dither_error, output_image_is_remapped, env) ==
    LET map == IF quant.use_dither_map # "None" /\ (image.dither_map \/ image.edges)
               THEN env.map ELSE "none"
        transparent_index == IF image.background.some
                             THEN nearest_to_zero(quant.palette, env.tb) ELSE 0
        fixed(ti, bg_on) ==
            [px |-> image.px,
             background |-> bg_on,
             bg |-> image.background.val,
             map |-> map,
             base |-> base_dithering_level(quant.dither_level.v, map # "none"),
             output_image_is_remapped |-> output_image_is_remapped,
             max_dither_error |-> max_dither_error,
             palette |-> quant.palette,
             transparent_index |-> ti,
             tb |-> env.tb,
             break_row |-> env.break_row]
        rows(f, acc) == floyd_rows(f, 0, [k \in 1..(Width + 2) |-> ZeroPx], TRUE, acc)
        pass(ti, bg_on, r) ==
            [ret |-> r.ret, output |-> r.output, by |-> r.by,
             pass |-> [name |-> "floyd", background |-> bg_on,
                       transparent_index |-> ti,
                       hinted |-> output_image_is_remapped,
                       palette |-> quant.palette]]
    IN  With(transparent_index, LAMBDA ti :
          With(background_enabled(image.background.some, quant.palette, ti), LAMBDA bg_on :
            With(With(fixed(ti, bg_on), LAMBDA f :
                   With([ret |-> "none", output |-> output, by |-> by],
                        LAMBDA acc : rows(f, acc))),
                 LAMBDA r : pass(ti, bg_on, r))))


\* ----------------------------------------------------------------------
\* Remapped::new, write_remapped_image_rows_internal, remap_into
\*
\* result is the object as a record, image is [px, background, edges,
\* dither_map] (the last two: whether the map exists).  env holds what the
\* surroundings decide during the call: stop (the step that fails: "none",
\* "alloc", "contrast_maps", "start", "rows", "before_floyd", "floyd_rows"),
\* break_row, tb, map and noise (does contrast_maps also make a dither map).
\* ----------------------------------------------------------------------

BlankOutput == [r \in 1..Height |-> [k \in 1..Width |-> Uninit]]
BlankBy == [r \in 1..Height |-> [k \in 1..Width |-> "none"]]

\* DitherMapMode
DitherMapModes == {"None", "Enabled", "Always"}

\* remap.rs 280
is_image_huge(width, height) == width * height > 2000 * 2000

\* remap.rs 281
allow_dither_map(use_dither_map, huge) ==
    \/ use_dither_map = "Always"
    \/ (~huge /\ use_dither_map # "None")

\* Line 282 without the test that the image has no dither map yet
generate_dither_map_despite_map(allow, edges, dither_map) == allow /\ edges

\* remap.rs 282; edges, dither_map: whether the image has the map
generate_dither_map(allow, edges, dither_map) == allow /\ (edges /\ ~dither_map)

\* remap.rs 265-304: [ret, product, image, output, by, passes]
Remapped_new(result, image, env) ==
    LET failed(code, out, by, ps, img) ==
            [ret |-> code, product |-> NoneRemapped.val, image |-> img,
             output |-> out, by |-> by, passes |-> ps]
        generate_map ==
            generate_dither_map(allow_dither_map(result.use_dither_map,
                                                 is_image_huge(Width, Height)),
                                image.edges, image.dither_map)
        \* lines 276-278: dither_level == 0
        nearest_only(m, n) ==
            IF env.stop = "rows"
            THEN failed("LIQ_OUT_OF_MEMORY", BlankOutput, BlankBy, <<>>, image)
            ELSE [ret |-> "LIQ_OK",
                  product |-> [int_palette |-> m.int, palette_error |-> Some(n.error)],
                  image |-> image,
                  output |-> n.output, by |-> n.by, passes |-> <<n.pass>>]
        \* lines 279-299; n is the pass made for the dither map, read only when
        \* the map is generated.  palette1, palette_error1: the locals `palette`
        \* and `palette_error`; image1: the image after update_dither_map
        dithered(n) ==
            LET palette1 == IF generate_map THEN n.palette ELSE result.palette
                palette_error1 == IF generate_map THEN Some(n.error)
                                  ELSE result.palette_error
                image1 == IF generate_map THEN [image EXCEPT !.dither_map = TRUE]
                          ELSE image
                out1 == IF generate_map THEN n.output ELSE BlankOutput
                by1 == IF generate_map THEN n.by ELSE BlankBy
                ps1 == IF generate_map THEN <<n.pass>> ELSE <<>>
                output_image_is_remapped == generate_map
                max_dither_error ==
                    Max((unwrap_or(palette_error1, quality_to_mse(80)) * 24) \div 10,
                        quality_to_mse(35))
                finish(m, fl) ==
                    IF fl.ret # "LIQ_OK"
                    THEN failed(fl.ret, fl.output, fl.by, ps1 \o <<fl.pass>>, image1)
                    ELSE [ret |-> "LIQ_OK",
                          product |-> [int_palette |-> m.int, palette_error |-> palette_error1],
                          image |-> image1,
                          output |-> fl.output, by |-> fl.by, passes |-> ps1 \o <<fl.pass>>]
            IN  IF generate_map /\ env.stop = "rows"
                THEN failed("LIQ_OUT_OF_MEMORY", BlankOutput, BlankBy, <<>>, image)
                ELSE IF env.stop = "before_floyd"
                THEN failed("LIQ_ABORTED", out1, by1, ps1, image1)
                ELSE IF env.stop = "floyd_rows"
                THEN failed("LIQ_OUT_OF_MEMORY", out1, by1, ps1, image1)
                ELSE With(make_int_palette(palette1, result.gamma,
                                           result.min_posterization_output),
                          LAMBDA m :
                            With(remap_to_palette_floyd(image1, out1, by1, result,
                                                        max_dither_error,
                                                        output_image_is_remapped, env),
                                 LAMBDA fl : finish(m, fl)))
    IN
    IF env.stop = "start" THEN failed("LIQ_ABORTED", BlankOutput, BlankBy, <<>>, image)
    ELSE IF FEq(result.dither_level, F(0))
    THEN With(make_int_palette(result.palette, result.gamma, result.min_posterization_output),
              LAMBDA m :
                With(remap_to_palette(image.px, image.background, m.pal, env.tb),
                     LAMBDA n : nearest_only(m, n)))
    ELSE With(remap_to_palette(image.px, image.background, result.palette, env.tb),
              LAMBDA n : dithered(n))

\* Line 80 with the old product dropped before Remapped::new is tried
stored_remapped_or_none(old, r) ==
    IF r.ret = "LIQ_OK" THEN Some(r.product) ELSE NoneRemapped

\* quant.rs 80: self.remapped = Some(Box::new(Remapped::new(..)?))
stored_remapped(old, r) ==
    IF r.ret = "LIQ_OK" THEN Some(r.product) ELSE old

\* quant.rs 75-82: [ret, remapped: self.remapped after the call, image,
\* output, by, passes]
write_remapped_image_rows_internal(result, image, env) ==
    LET needs_maps == ~image.edges /\ ~image.dither_map /\ result.use_dither_map # "None"
        \* image.contrast_maps()
        image1 == IF needs_maps
                  THEN [image EXCEPT !.edges = TRUE, !.dither_map = env.noise]
                  ELSE image
    IN  IF needs_maps /\ env.stop = "contrast_maps"
        THEN [ret |-> "LIQ_OUT_OF_MEMORY", remapped |-> result.remapped, image |-> image,
              output |-> BlankOutput, by |-> BlankBy, passes |-> <<>>]
        ELSE With(Remapped_new(result, image1, env), LAMBDA r :
                [ret |-> r.ret, remapped |-> stored_remapped(result.remapped, r),
                 image |-> r.image, output |-> r.output, by |-> r.by, passes |-> r.passes])

\* quant.rs 212-218; output_buf_len is the length of the caller's buffer
remap_into(result, image, output_buf_len, env) ==
    LET required_size == Width * Height
    IN  IF output_buf_len < required_size
        THEN [ret |-> "LIQ_BUFFER_TOO_SMALL", remapped |-> result.remapped, image |-> image,
              output |-> BlankOutput, by |-> BlankBy, passes |-> <<>>]
        ELSE write_remapped_image_rows_internal(result, image, env)

\* quant.rs 191-201: remapped() allocates the buffer itself
remapped(result, image, env) ==
    IF env.stop = "alloc"
    THEN [ret |-> "LIQ_OUT_OF_MEMORY", remapped |-> result.remapped, image |-> image,
          output |-> BlankOutput, by |-> BlankBy, passes |-> <<>>]
    ELSE remap_into(result, image, Width * Height, env)

\* The object and the image as records
Self ==
    [palette |-> self_palette, palette_error |-> self_palette_error,
     remapped |-> self_remapped, int_palette |-> self_int_palette,
     dither_level |-> self_dither_level, gamma |-> self_gamma,
     min_posterization_output |-> self_min_posterization,
     use_dither_map |-> self_use_dither_map]

TheImage ==
    [px |-> image_px, background |-> image_background,
     edges |-> image_edges, dither_map |-> image_dither_map]

\* What palette() would return now (quant.rs 152-172)
palette_view ==
    int_palette(self_remapped, self_int_palette, self_palette, self_gamma,
                self_min_posterization).ret

remapping_error == remapping_error_of(self_remapped)


\* ----------------------------------------------------------------------
\* Inputs of the remaps
\* ----------------------------------------------------------------------

PalEntry(a, v) == [color |-> Color(a, v), pop |-> 1, fixed |-> FALSE]

\* Palettes of a result: two opaque entries; the same and a fully transparent
\* last entry; a partly transparent entry and an opaque one
RemapPalettes ==
    { <<PalEntry(AlphaMax, 0), PalEntry(AlphaMax, AlphaMax)>>,
      <<PalEntry(AlphaMax, AlphaMax), PalEntry(AlphaMax, 0), PalEntry(0, 0)>>,
      <<PalEntry(1, 0), PalEntry(AlphaMax, 1)>> }

\* Images: the colours of ImageColors(opaque) laid out in turn from offset k
ImageColors(opaque) ==
    IF opaque
    THEN <<Color(AlphaMax, 0), Color(AlphaMax, AlphaMax), Color(AlphaMax, 1)>>
    ELSE <<Color(0, 0), Color(AlphaMax, 0), Color(AlphaMax, AlphaMax), Color(AlphaMax, 1)>>

ImagePx(k, opaque) ==
    [r \in 1..Height |-> [c \in 1..Width |->
        ImageColors(opaque)[((r * Width + c + k) % Len(ImageColors(opaque))) + 1]]]

Images == { ImagePx(k, opaque) : k \in 0..1, opaque \in BOOLEAN }

\* Backgrounds of an image: none, the image itself (a static frame), white
Backgrounds(px) ==
    { NonePal, Some(px),
      Some([r \in 1..Height |-> [c \in 1..Width |-> Color(AlphaMax, AlphaMax)]]) }

\* What the surroundings can decide during a remap (tie-breaking, the kind of
\* map and the noise are varied on the runs that nothing interrupts)
Envs ==
    { e \in [stop : {"none", "alloc", "contrast_maps", "start", "rows", "before_floyd",
                     "floyd_rows"},
             break_row : 0..Height,
             tb : {"low", "high"},
             map : {"flat", "mixed"},
             noise : BOOLEAN] :
        (e.stop # "none" \/ e.break_row # 0)
            => (e.tb = "low" /\ e.map = "flat" /\ ~e.noise
                /\ (e.stop = "none" \/ e.break_row = 0)) }

\* ----------------------------------------------------------------------
\* One remap of an image, pixel by pixel (SpecRemap)
\* ----------------------------------------------------------------------

RemapInit ==
    /\ NoQuant /\ NoSort /\ NoCall
    /\ self_palette \in RemapPalettes
    /\ self_palette_error \in {NoneF, Some(MaxErr)}
    /\ self_remapped = NoneRemapped
    /\ self_int_palette = EmptyIntPalette
    /\ self_dither_level \in {F(0), F(100)}
    /\ self_gamma = F(input_gamma)
    /\ self_min_posterization = attr_min_posterization
    /\ self_use_dither_map \in DitherMapModes
    /\ image_px \in Images
    /\ image_background \in Backgrounds(image_px)
    /\ image_edges \in BOOLEAN
    /\ image_dither_map \in { m \in BOOLEAN : m => image_edges }
    /\ output_pixels = BlankOutput
    /\ written_by = BlankBy
    /\ passes = <<>>

\* result.remap_into(&mut image, &mut buf) with a buffer of width * height bytes
RemapImage ==
    /\ last_op = "none"
    /\ \E env \in { e \in Envs : e.stop # "alloc" } :
        \E r \in { remap_into(Self, TheImage, Width * Height, env) } :
            /\ last_op' = "remap_into"
            /\ last_arg' = last_arg
            /\ last_result' = r.ret
            /\ self_remapped' = r.remapped
            /\ image_edges' = r.image.edges
            /\ image_dither_map' = r.image.dither_map
            /\ output_pixels' = r.output
            /\ written_by' = r.by
            /\ passes' = r.passes
    /\ UNCHANGED <<quant_vars, sort_vars, image_px, image_background,
                   self_palette, self_palette_error, self_int_palette, self_dither_level,
                   self_gamma, self_min_posterization, self_use_dither_map>>

RemapNext == RemapImage

SpecRemap == RemapInit /\ [][RemapNext]_vars

\* The palette the nearest-only path searches: the result's palette as rounded
\* by make_int_palette (remap.rs 277-278)
rounded_palette ==
    make_int_palette(self_palette, self_gamma, self_min_posterization).pal

\* C1: after remap_into every byte of the output that a pass wrote is an index
\* below the length of the palette of that remap (the integer palette the
\* remap stored, as long as the result's palette), on the nearest-only path
\* and on the Floyd-Steinberg path with or without the nearest pre-pass and
\* with or without a background; after a successful remap no byte is left
\* unwritten.  A remap that failed part-way wrote nothing else than such
\* indices either.
C1_IndicesBelowPaletteLength ==
    last_op = "remap_into" =>
        /\ \A r \in 1..Height : \A c \in 1..Width :
              \/ output_pixels[r][c] \in 0..(Len(self_palette) - 1)
              \/ output_pixels[r][c] = Uninit /\ last_result # "LIQ_OK"
        /\ last_result = "LIQ_OK" =>
              /\ self_remapped.some
              /\ Len(self_remapped.val.int_palette) = Len(self_palette)
              /\ \A r \in 1..Height : \A c \in 1..Width :
                    output_pixels[r][c] < Len(self_remapped.val.int_palette)

\* A Floyd-Steinberg remap after a nearest pre-pass, with a background, that
\* wrote the last index of the palette, reused the background for one pixel
\* and searched for another
C1_Witness ==
    /\ last_op = "remap_into" /\ last_result = "LIQ_OK"
    /\ Len(passes) = 2 /\ passes[2].name = "floyd" /\ passes[2].background
    /\ \E r \in 1..Height : \E c \in 1..Width :
          output_pixels[r][c] = Len(self_palette) - 1 /\ written_by[r][c] = "background"
    /\ \E r \in 1..Height : \E c \in 1..Width : written_by[r][c] = "search"

\* C7: in every pass of either path, when the image has a background and the
\* palette entry nearest to the all-zero pixel has alpha above MIN_OPAQUE_A,
\* background reuse is off for the pass; when it is off in every pass of the
\* remap, no written index comes from a comparison with the background, each
\* is the result of the search, and on the nearest-only path it is an entry
\* nearest to the input pixel.
C7_BackgroundDisabled ==
    last_op = "remap_into" =>
        /\ \A k \in DOMAIN passes :
              (image_background.some
               /\ self_palette[passes[k].transparent_index + 1].color.a > MIN_OPAQUE_A)
                  => ~passes[k].background
        /\ (\A k \in DOMAIN passes : ~passes[k].background) =>
              /\ \A r \in 1..Height : \A c \in 1..Width :
                    written_by[r][c] \in {"search", "none"}
              /\ (last_result = "LIQ_OK" /\ passes[1].name = "nearest" /\ Len(passes) = 1) =>
                    \A r \in 1..Height : \A c \in 1..Width : \A j \in DOMAIN rounded_palette :
                        diff(Sub(image_px[r][c]), Sub(rounded_palette[output_pixels[r][c] + 1].color))
                            <= diff(Sub(image_px[r][c]), Sub(rounded_palette[j].color))

\* Two passes over a static frame (the background is the image itself) with a
\* palette whose entry nearest to zero is not transparent: reuse is off in both
C7_Witness ==
    /\ last_op = "remap_into" /\ last_result = "LIQ_OK"
    /\ image_background.some /\ image_background.val = image_px
    /\ Len(passes) = 2
    /\ \A k \in DOMAIN passes :
          /\ ~passes[k].background
          /\ self_palette[passes[k].transparent_index + 1].color.a > MIN_OPAQUE_A
    /\ \A r \in 1..Height : \A c \in 1..Width : written_by[r][c] = "search"

\* C12: on the nearest-only path with background reuse on, a pixel is written
\* as the transparent index exactly when the background pixel is at least as
\* close to the input pixel as the nearest palette entry is, that is when
\* diff(background pixel, input pixel) <= diff(input pixel, nearest entry);
\* otherwise the index of an entry nearest to the input pixel is written.
C12_BackgroundReuse ==
    (/\ last_op = "remap_into" /\ last_result = "LIQ_OK"
     /\ Len(passes) = 1 /\ passes[1].name = "nearest" /\ passes[1].background) =>
        \A r \in 1..Height : \A c \in 1..Width :
            LET inp == Sub(image_px[r][c])
                bg == Sub(image_background.val[r][c])
                entry(j) == Sub(rounded_palette[j].color)
            IN  IF \A j \in DOMAIN rounded_palette : diff(bg, inp) <= diff(inp, entry(j))
                THEN output_pixels[r][c] = passes[1].transparent_index
                ELSE \A j \in DOMAIN rounded_palette :
                        diff(inp, entry(output_pixels[r][c] + 1)) <= diff(inp, entry(j))

\* C13: the passes of a successful Remapped::new on an image whose maps are
\* not made by the call itself (so Remapped::new sees the image as it was).
\* With dither level 0 only the nearest pass runs and its error is the
\* recorded palette_error (the mean diff of the written pixels when no
\* background is reused).  With dither level > 0 the nearest pre-pass runs if
\* and only if (the mode is Always, or the mode is Enabled and
\* width * height <= 4,000,000) and the image has an edges map and no dither
\* map; the Floyd-Steinberg pass always runs, last, and takes the written
\* indices as search hints exactly when the pre-pass ran; with mode None the
\* pre-pass never runs.  The first conjunct states the size rule for image
\* sides around the threshold.
C13_PassSequence ==
    /\ \A w \in {1, 1999, 2000, 2001} : \A h \in {1, 2000, 2001} :
          \A mode \in DitherMapModes :
             allow_dither_map(mode, is_image_huge(w, h))
                <=> (mode = "Always" \/ (mode = "Enabled" /\ w * h <= 4000000))
    /\ [][(/\ last_op' = "remap_into" /\ last_result' = "LIQ_OK"
           /\ ~(~image_edges /\ ~image_dither_map /\ self_use_dither_map # "None")) =>
            IF FEq(self_dither_level, F(0))
            THEN /\ Len(passes') = 1
                 /\ passes'[1].name = "nearest"
                 /\ self_remapped'.some
                 /\ self_remapped'.val.palette_error.some
                 /\ ~passes'[1].background =>
                       self_remapped'.val.palette_error.val =
                           SumSeq([k \in DOMAIN Positions |->
                                     diff(Sub(image_px[Positions[k][1]][Positions[k][2]]),
                                          Sub(rounded_palette[
                                                output_pixels'[Positions[k][1]][Positions[k][2]] + 1
                                              ].color))])
                               \div (Width * Height)
            ELSE LET pre_pass == /\ \/ self_use_dither_map = "Always"
                                    \/ /\ self_use_dither_map = "Enabled"
                                       /\ Width * Height <= 4000000
                                 /\ image_edges
                                 /\ ~image_dither_map
                 IN  /\ Len(passes') = (IF pre_pass THEN 2 ELSE 1)
                     /\ pre_pass => passes'[1].name = "nearest"
                     /\ passes'[Len(passes')].name = "floyd"
                     /\ passes'[Len(passes')].hinted <=> pre_pass
                     /\ self_use_dither_map = "None" => Len(passes') = 1]_vars

\* A dithered remap in mode Always that ran the pre-pass and then the
\* Floyd-Steinberg pass with the written indices as hints
C13_Witness ==
    /\ last_op = "remap_into" /\ last_result = "LIQ_OK"
    /\ self_use_dither_map = "Always"
    /\ ~FEq(self_dither_level, F(0))
    /\ Len(passes) = 2
    /\ passes[1].name = "nearest"
    /\ passes[2].name = "floyd" /\ passes[2].hinted

\* C14: after a successful dithered remap, the palette the Floyd-Steinberg
\* pass searched (and took the propagated error from) is the palette the
\* returned integer palette was derived from, k-means update of the pre-pass
\* and rounding included: for every written index i, entry i of the searched
\* palette is a rounded colour and converts to entry i of the returned
\* integer palette.
C14_FloydSearchesReturnedPalette ==
    (/\ last_op = "remap_into" /\ last_result = "LIQ_OK"
     /\ passes[Len(passes)].name = "floyd") =>
        LET searched == passes[Len(passes)].palette
            m == make_int_palette(searched, self_gamma, self_min_posterization)
        IN  \A r \in 1..Height : \A c \in 1..Width :
                LET i == output_pixels[r][c] + 1
                IN  /\ searched[i].color = m.pal[i].color
                    /\ m.int[i] = self_remapped.val.int_palette[i]

\* ----------------------------------------------------------------------
\* Calls on a result, in any order (SpecResult)
\* ----------------------------------------------------------------------

\* Arguments of set_dithering_level and of set_output_gamma, in hundredths
DitherArgs == { F(-1), F(0), F(100), F(101), NaN }
GammaArgs == { F(0), F(57), F(100), NaN }

\* What the surroundings decide during the remaps of this specification
ResultEnvs == { e \in Envs : e.tb = "low" /\ e.map = "flat" /\ ~e.noise }

\* A result as new() returns it (quant.rs 58-72) and an image to remap
ResultInit ==
    /\ NoQuant /\ NoSort /\ NoCall
    /\ self_palette \in { p \in RemapPalettes : \E i \in DOMAIN p : p[i].color.a < AlphaMax }
    /\ self_palette_error = Some(MaxErr)
    /\ self_remapped = NoneRemapped
    /\ self_int_palette = EmptyIntPalette
    /\ self_dither_level = F(0)
    /\ self_gamma = F(input_gamma)
    /\ self_min_posterization = attr_min_posterization
    /\ self_use_dither_map = attr_use_dither_map
    /\ image_px = ImagePx(0, FALSE)
    /\ image_background \in { NonePal, Some(image_px) }
    /\ image_edges = FALSE
    /\ image_dither_map = FALSE
    /\ output_pixels = BlankOutput
    /\ written_by = BlankBy
    /\ passes = <<>>

\* result.set_dithering_level(value)
SetDitheringLevel ==
    \E value \in DitherArgs :
        \E r \in { set_dithering_level(value, self_remapped, self_dither_level) } :
            /\ last_op' = "set_dithering_level"
            /\ last_arg' = value
            /\ last_result' = r.ret
            /\ self_remapped' = r.remapped
            /\ self_dither_level' = r.dither_level
            /\ UNCHANGED <<quant_vars, sort_vars, remap_vars, self_palette, self_palette_error,
                           self_int_palette, self_gamma, self_min_posterization,
                           self_use_dither_map>>

\* result.set_output_gamma(value)
SetOutputGamma ==
    \E value \in GammaArgs :
        \E r \in { set_output_gamma(value, self_remapped, self_gamma) } :
            /\ last_op' = "set_output_gamma"
            /\ last_arg' = value
            /\ last_result' = r.ret
            /\ self_remapped' = r.remapped
            /\ self_gamma' = r.gamma
            /\ UNCHANGED <<quant_vars, sort_vars, remap_vars, self_palette, self_palette_error,
                           self_int_palette, self_dither_level, self_min_posterization,
                           self_use_dither_map>>

\* result.palette()
GetPalette ==
    \E r \in { int_palette(self_remapped, self_int_palette, self_palette, self_gamma,
                            self_min_posterization) } :
        /\ last_op' = "palette"
        /\ last_arg' = F(0)
        /\ last_result' = "none"
        /\ self_int_palette' = r.int_palette
        /\ self_palette' = r.palette
        /\ UNCHANGED <<quant_vars, sort_vars, remap_vars, self_palette_error, self_remapped,
                       self_dither_level, self_gamma, self_min_posterization,
                       self_use_dither_map>>

\* What a remap call leaves in the result and in the image (the bitmap it
\* wrote belongs to the caller; SpecRemap is about its bytes); palette_vec is
\* whether the call ends with self.palette_vec() (quant.rs 199)
RemapCall(op, r, palette_vec) ==
    /\ last_op' = op
    /\ last_arg' = F(0)
    /\ last_result' = r.ret
    /\ self_remapped' = r.remapped
    /\ image_edges' = r.image.edges
    /\ image_dither_map' = r.image.dither_map
    /\ UNCHANGED <<output_pixels, written_by, passes>>
    /\ IF palette_vec /\ r.ret = "LIQ_OK"
       THEN \E p \in { int_palette(r.remapped, self_int_palette, self_palette, self_gamma,
                                    self_min_posterization) } :
               self_int_palette' = p.int_palette /\ self_palette' = p.palette
       ELSE UNCHANGED <<self_int_palette, self_palette>>
    /\ UNCHANGED <<quant_vars, sort_vars, image_px, image_background, self_palette_error,
                   self_dither_level, self_gamma, self_min_posterization,
                   self_use_dither_map>>

\* result.remap_into(&mut image, &mut buf) with a buffer that is long enough
\* or one byte short
RemapInto ==
    \E env \in { e \in ResultEnvs : e.stop # "alloc" },
       output_buf_len \in { Width * Height - 1, Width * Height } :
        \* (nothing is decided during a call that the short buffer ends)
        /\ output_buf_len < Width * Height => (env.stop = "none" /\ env.break_row = 0)
        /\ \E r \in { remap_into(Self, TheImage, output_buf_len, env) } :
            RemapCall("remap_into", r, FALSE)

\* result.remapped(&mut image): the buffer cannot be had, the observer stops
\* the remap at once, or nothing interrupts
RemappedCall ==
    \E env \in { e \in ResultEnvs : e.stop \in {"none", "alloc", "start"} /\ e.break_row = 0 } :
        \E r \in { remapped(Self, TheImage, env) } :
            RemapCall("remapped", r, TRUE)

ResultNext == SetDitheringLevel \/ SetOutputGamma \/ GetPalette \/ RemapInto \/ RemappedCall

SpecResult == ResultInit /\ [][ResultNext]_vars

\* C4: a remap_into or remapped call that returns an error (the buffer too
\* short, Aborted by the observer of the remap, or a failed allocation) leaves
\* the result as it was: every field, and with them the palette that
\* palette() returns and the remapping_error of the product stored before.
C4_FailedRemapLeavesResult ==
    [][(last_op' \in {"remap_into", "remapped"} /\ last_result' # "LIQ_OK")
        => /\ self_fields' = self_fields
           /\ palette_view' = palette_view
           /\ remapping_error' = remapping_error]_vars

\* A remap aborted after the image got its dither map, on a result that keeps
\* the product of an earlier remap
C4_Witness ==
    /\ last_op \in {"remap_into", "remapped"}
    /\ last_result = "LIQ_ABORTED"
    /\ image_dither_map
    /\ self_remapped.some /\ remapping_error.some

\* The documented domains of the setters: [0, 1] and (0, 1), in hundredths
in_dithering_domain(value) == ~value.nan /\ 0 <= value.v /\ value.v <= 100
in_gamma_domain(value) == ~value.nan /\ 0 < value.v /\ value.v < 100

\* C5: set_dithering_level and set_output_gamma return OK, store the value
\* and clear the stored remap (remapping_error becomes unknown) when the value
\* is in the domain, [0, 1] or (0, 1); for any other value they return
\* ValueOutOfRange and change neither the stored value nor the stored remap.
C5_SettersClearRemapOnSuccess ==
    [][/\ last_op' = "set_dithering_level" =>
            IF in_dithering_domain(last_arg')
            THEN /\ last_result' = "LIQ_OK"
                 /\ self_dither_level' = last_arg'
                 /\ ~self_remapped'.some /\ ~remapping_error'.some
            ELSE /\ last_result' = "LIQ_VALUE_OUT_OF_RANGE"
                 /\ self_dither_level' = self_dither_level
                 /\ self_remapped' = self_remapped
       /\ last_op' = "set_output_gamma" =>
            IF in_gamma_domain(last_arg')
            THEN /\ last_result' = "LIQ_OK"
                 /\ self_gamma' = last_arg'
                 /\ ~self_remapped'.some /\ ~remapping_error'.some
            ELSE /\ last_result' = "LIQ_VALUE_OUT_OF_RANGE"
                 /\ self_gamma' = self_gamma
                 /\ self_remapped' = self_remapped]_vars

\* C15: after any sequence of palette(), set_output_gamma,
\* set_dithering_level and remap calls, palette() returns the integer palette
\* of the stored remapped product when there is one, and otherwise the
\* integer palette derived from the stored palette with the current output
\* gamma (so a palette() after a successful set_output_gamma(g) reflects g,
\* whether or not palette() was called before the setter).
C15_PaletteReflectsGamma ==
    palette_view =
        IF self_remapped.some
        THEN self_remapped.val.int_palette
        ELSE make_int_palette(self_palette, self_gamma, self_min_posterization).int

====
